---- MODULE Spec2Model ----
(***************************************************************************)
(* skipera (src/main.py): the Skipera item-processing run.                 *)
(*                                                                         *)
(* One run of main(): flag normalisation, Skipera.__init__ (user-id        *)
(* lookup), get_course (content fetch, classification of the items into    *)
(* the videos / readings / assessments lists, then the video phase, the    *)
(* reading loop and the assessment loop).  Every collaborator call         *)
(* (metadata fetch, Watcher.watch_item, the completion POST,               *)
(* GradedSolver.solve) is a step at which the call is in flight; it ends   *)
(* by returning or by raising.                                             *)
(*                                                                         *)
(* An item is its index in the platform's item list; the index stands for  *)
(* both item["id"] and item["name"].                                       *)
(***************************************************************************)
EXTENDS Integers, Sequences, FiniteSets

\* Longest item list r["linked"]["onDemandCourseMaterialItems.v2"] explored.
MaxItems == 3

\* Largest videos list explored by the counting model of the worker pool.
MaxPoolVideos == 32

\* ThreadPoolExecutor(max_workers=30)
max_workers == 30

\* item["contentSummary"]["typeName"]; "quiz" stands for every tag the
\* classification loop has no branch for.
TypeNames == {"lecture", "supplement", "ungradedAssignment", "staffGraded", "quiz"}

VARIABLES
    args,         \* the command-line flags handed to main: [llm, eva, parallel]
    items,        \* the platform's item list: a sequence of type names
    pc,           \* position of the coordinating thread
    llm,          \* self.llm
    eva,          \* self.eva
    parallel,     \* self.parallel
    user_id,      \* self.user_id
    course_id,    \* self.course_id
    videos,       \* get_course's local list videos (item indices)
    readings,     \* get_course's local list readings
    assessments,  \* get_course's local list assessments
    k,            \* position of the running for-loop in its list
    vstat,        \* per position of videos: where that video's processing is
    rstat,        \* per position of readings
    astat,        \* per position of assessments
    calls,        \* per item: the collaborator calls issued for it, in order
    log,          \* the loguru records emitted, in order: <<kind, item>>
    pool          \* the executor's counters: [n, submitted, started, finished]

vars == <<args, items, pc, llm, eva, parallel, user_id, course_id, videos,
          readings, assessments, k, vstat, rstat, astat, calls, log, pool>>

flagVars == <<args, llm, eva, parallel>>
bucketVars == <<videos, readings, assessments>>
idVars == <<user_id, course_id>>

\* The item list of the end-to-end scenarios: two lectures, a supplement and
\* an ungraded assignment.
Scenario == <<"lecture", "lecture", "supplement", "ungradedAssignment">>

ItemLists == UNION {[1..n -> TypeNames] : n \in 0..MaxItems} \cup {Scenario}

Flags == [llm : BOOLEAN, eva : BOOLEAN, parallel : BOOLEAN]

NoPool == [n |-> 0, submitted |-> 0, started |-> 0, finished |-> 0]

Log(kind, item) == Append(log, <<kind, item>>)

Call(item, kind) == [calls EXCEPT ![item] = Append(@, kind)]

Range(s) == {s[i] : i \in 1..Len(s)}

\* Number of positions of s whose value is in S.
CountIn(s, S) == Cardinality({i \in 1..Len(s) : s[i] \in S})

----------------------------------------------------------------------------
(* main(), lines 163-172: flag precedence, then Skipera(...).__init__ up to *)
(* the user-id request.                                                    *)

\* main_flags with the precedence the other way round: --llm switches
\* --eva off.
main_flags_llm_wins(a) ==
    LET e == IF a.eva /\ a.llm THEN FALSE ELSE a.eva
        p == IF a.parallel /\ e THEN FALSE ELSE a.parallel
    IN  [llm |-> a.llm, eva |-> e, parallel |-> p]

\* lines 164-170: the flags main passes to Skipera.
main_flags(a) ==
    LET l == IF a.eva /\ a.llm THEN FALSE ELSE a.llm
        p == IF a.parallel /\ a.eva THEN FALSE ELSE a.parallel
    IN  [llm |-> l, eva |-> a.eva, parallel |-> p]

\* lines 165, 169: the warnings main logs.
main_log(a) ==
    (IF a.eva /\ a.llm THEN <<<<"warn_llm_eva", 0>>>> ELSE <<>>)
    \o (IF a.parallel /\ a.eva THEN <<<<"warn_parallel_eva", 0>>>> ELSE <<>>)

main ==
    /\ pc = "main"
    /\ llm' = main_flags(args).llm
    /\ eva' = main_flags(args).eva
    /\ parallel' = main_flags(args).parallel
    /\ log' = log \o main_log(args)
    /\ pc' = "get_userid"
    /\ UNCHANGED <<args, items, idVars, bucketVars, k, vstat, rstat, astat, calls, pool>>

\* lines 31-40, 25: the lookup answers with a user id.
get_userid_ok ==
    /\ pc = "get_userid"
    /\ user_id' = "uid"
    /\ log' = Log("user_id", 0)
    /\ pc' = "get_course"
    /\ UNCHANGED <<flagVars, items, course_id, bucketVars, k, vstat, rstat, astat, calls, pool>>

\* get_userid_fail with a login() that returns instead of raising.
get_userid_fail_continues ==
    /\ pc = "get_userid"
    /\ pc' = "get_course"
    /\ UNCHANGED <<flagVars, items, idVars, bucketVars, k, vstat, rstat, astat, calls, log, pool>>

\* lines 25-29, 32-39: the request raises, or the answer has no user id and
\* login() raises NotImplementedError; logger.catch (line 157) ends the run.
get_userid_fail ==
    /\ pc = "get_userid"
    /\ pc' = "aborted"
    /\ UNCHANGED <<flagVars, items, idVars, bucketVars, k, vstat, rstat, astat, calls, log, pool>>

----------------------------------------------------------------------------
(* get_course, lines 42-87: content fetch and classification.              *)

\* classify_item with a final else branch that takes the item as a reading.
classify_item_else_reading(b, i, t, l, e) ==
    IF t = "lecture" THEN
        IF ~e THEN [b EXCEPT !.videos = Append(@, i)]
        ELSE [b EXCEPT !.log = Append(@, <<"skip_video", i>>)]
    ELSE IF t = "supplement" THEN
        IF ~e THEN [b EXCEPT !.readings = Append(@, i)]
        ELSE [b EXCEPT !.log = Append(@, <<"skip_reading", i>>)]
    ELSE IF t \in {"ungradedAssignment", "staffGraded"} THEN
        IF l \/ e THEN [b EXCEPT !.assessments = Append(@, i)]
        ELSE IF t = "ungradedAssignment"
             THEN [b EXCEPT !.log = Append(@, <<"skip_ungraded", 0>>)]
             ELSE b
    ELSE [b EXCEPT !.readings = Append(@, i)]

\* classify_item without the test of self.eva in the lecture branch.
classify_item_no_eva_test(b, i, t, l, e) ==
    IF t = "lecture" THEN [b EXCEPT !.videos = Append(@, i)]
    ELSE IF t = "supplement" THEN
        IF ~e THEN [b EXCEPT !.readings = Append(@, i)]
        ELSE [b EXCEPT !.log = Append(@, <<"skip_reading", i>>)]
    ELSE IF t \in {"ungradedAssignment", "staffGraded"} THEN
        IF l \/ e THEN [b EXCEPT !.assessments = Append(@, i)]
        ELSE IF t = "ungradedAssignment"
             THEN [b EXCEPT !.log = Append(@, <<"skip_ungraded", 0>>)]
             ELSE b
    ELSE b

\* classify_item whose assessment branch tests self.llm alone.
classify_item_llm_only(b, i, t, l, e) ==
    IF t = "lecture" THEN
        IF ~e THEN [b EXCEPT !.videos = Append(@, i)]
        ELSE [b EXCEPT !.log = Append(@, <<"skip_video", i>>)]
    ELSE IF t = "supplement" THEN
        IF ~e THEN [b EXCEPT !.readings = Append(@, i)]
        ELSE [b EXCEPT !.log = Append(@, <<"skip_reading", i>>)]
    ELSE IF t \in {"ungradedAssignment", "staffGraded"} THEN
        IF l THEN [b EXCEPT !.assessments = Append(@, i)]
        ELSE IF t = "ungradedAssignment"
             THEN [b EXCEPT !.log = Append(@, <<"skip_ungraded", 0>>)]
             ELSE b
    ELSE b

\* classify_item whose lecture branch appends the item to readings too.
classify_item_lecture_also_reading(b, i, t, l, e) ==
    IF t = "lecture" THEN
        IF ~e THEN [b EXCEPT !.videos = Append(@, i), !.readings = Append(@, i)]
        ELSE [b EXCEPT !.log = Append(@, <<"skip_video", i>>)]
    ELSE IF t = "supplement" THEN
        IF ~e THEN [b EXCEPT !.readings = Append(@, i)]
        ELSE [b EXCEPT !.log = Append(@, <<"skip_reading", i>>)]
    ELSE IF t \in {"ungradedAssignment", "staffGraded"} THEN
        IF l \/ e THEN [b EXCEPT !.assessments = Append(@, i)]
        ELSE IF t = "ungradedAssignment"
             THEN [b EXCEPT !.log = Append(@, <<"skip_ungraded", 0>>)]
             ELSE b
    ELSE b

\* lines 73-87: one pass of the classification loop over item i of type t;
\* b holds the three lists and the log.
classify_item(b, i, t, l, e) ==
    IF t = "lecture" THEN
        IF ~e THEN [b EXCEPT !.videos = Append(@, i)]
        ELSE [b EXCEPT !.log = Append(@, <<"skip_video", i>>)]
    ELSE IF t = "supplement" THEN
        IF ~e THEN [b EXCEPT !.readings = Append(@, i)]
        ELSE [b EXCEPT !.log = Append(@, <<"skip_reading", i>>)]
    ELSE IF t \in {"ungradedAssignment", "staffGraded"} THEN
        IF l \/ e THEN [b EXCEPT !.assessments = Append(@, i)]
        ELSE IF t = "ungradedAssignment"
             THEN [b EXCEPT !.log = Append(@, <<"skip_ungraded", 0>>)]
             ELSE b
    ELSE b

\* classify_from of a loop that walks the item list from its end.
RECURSIVE classify_from_reversed(_, _, _, _, _)
classify_from_reversed(b, i, its, l, e) ==
    IF i > Len(its) THEN b
    ELSE classify_from_reversed(
             classify_item(b, Len(its) - i + 1, its[Len(its) - i + 1], l, e),
             i + 1, its, l, e)

\* line 72: the loop over the item list from item i on.
RECURSIVE classify_from(_, _, _, _, _)
classify_from(b, i, its, l, e) ==
    IF i > Len(its) THEN b
    ELSE classify_from(classify_item(b, i, its[i], l, e), i + 1, its, l, e)

\* lines 68-87: the three lists (and the log) after the loop.
classify(its, l, e, lg) ==
    classify_from([videos |-> <<>>, readings |-> <<>>, assessments |-> <<>>,
                   log |-> lg], 1, its, l, e)

\* lines 43-87: the fetch answers; ids and counts are logged, the items are
\* classified.
get_course_ok ==
    /\ pc = "get_course"
    /\ course_id' = "cid"
    /\ LET b == classify(items, llm, eva,
                         log \o <<<<"course_id", 0>>, <<"modules", 0>>, <<"processing_items", 0>>>>)
       IN  /\ videos' = b.videos
           /\ readings' = b.readings
           /\ assessments' = b.assessments
           /\ log' = b.log
           /\ vstat' = [i \in 1..Len(b.videos) |-> "pending"]
           /\ rstat' = [i \in 1..Len(b.readings) |-> "pending"]
           /\ astat' = [i \in 1..Len(b.assessments) |-> "pending"]
    /\ pc' = "videos"
    /\ UNCHANGED <<flagVars, items, user_id, k, calls, pool>>

\* lines 43-72: the request raises or the answer is malformed: it lacks
\* "elements" (line 61), the modules under "linked" (line 64, after the
\* course id was set and logged) or the items under "linked" (line 72).
get_course_fail ==
    /\ pc = "get_course"
    /\ \/ UNCHANGED <<course_id, log>>
       \/ course_id' = "cid" /\ log' = Log("course_id", 0)
       \/ /\ course_id' = "cid"
          /\ log' = log \o <<<<"course_id", 0>>, <<"modules", 0>>, <<"processing_items", 0>>>>
    /\ pc' = "aborted"
    /\ UNCHANGED <<flagVars, items, user_id, bucketVars, k, vstat, rstat, astat, calls, pool>>

----------------------------------------------------------------------------
(* get_course, lines 89-107: the video phase.                              *)

Finished == {"completed", "failed", "exception"}
Running == {"metadata", "watch"}

\* use_pool without the test of self.parallel.
use_pool_always(vs, p) == vs # <<>>

\* line 90: the test that sends the videos to the pool.
use_pool(vs, p) == vs # <<>> /\ p

\* lines 90-92: videos is non-empty and self.parallel is set; the pool is made.
videos_parallel ==
    /\ pc = "videos"
    /\ use_pool(videos, parallel)
    /\ log' = Log("processing_parallel", Len(videos))
    /\ pool' = [n |-> Len(videos), submitted |-> 0, started |-> 0, finished |-> 0]
    /\ pc' = "submit"
    /\ k' = 1
    /\ UNCHANGED <<flagVars, items, idVars, bucketVars, vstat, rstat, astat, calls>>

\* line 103: videos is non-empty, self.parallel is not set.
videos_sequential ==
    /\ pc = "videos"
    /\ ~use_pool(videos, parallel) /\ videos # <<>>
    /\ pc' = "seq_videos"
    /\ k' = 1
    /\ UNCHANGED <<flagVars, items, idVars, bucketVars, vstat, rstat, astat, calls, log, pool>>

\* lines 90, 103: both tests fail on an empty list.
videos_none ==
    /\ pc = "videos"
    /\ videos = <<>>
    /\ pc' = "readings"
    /\ k' = 1
    /\ UNCHANGED <<flagVars, items, idVars, bucketVars, vstat, rstat, astat, calls, log, pool>>

\* lines 94-96: executor.submit(self._process_video, item) for position k.
submit ==
    /\ pc = "submit"
    /\ k <= Len(videos)
    /\ vstat' = [vstat EXCEPT ![k] = "queued"]
    /\ pool' = [pool EXCEPT !.submitted = @ + 1]
    /\ k' = k + 1
    /\ pc' = IF k = Len(videos) THEN "as_completed" ELSE "submit"
    /\ UNCHANGED <<flagVars, items, idVars, bucketVars, rstat, astat, calls, log>>

\* pool_has_idle_worker off by one.
pool_has_idle_worker_off_by_one(started, finished) == started - finished <= max_workers

\* line 92: a queued task starts only on one of the max_workers threads.
pool_has_idle_worker(started, finished) == started - finished < max_workers

\* queue_head of a pool that stops taking tasks once an earlier one failed.
queue_head_fail_fast(i) ==
    /\ i \in 1..Len(vstat)
    /\ vstat[i] = "queued"
    /\ \A j \in 1..(i - 1) : vstat[j] \notin {"queued", "failed"}

\* The work queue is first-in first-out: position i is the oldest queued one.
queue_head(i) ==
    /\ i \in 1..Len(vstat)
    /\ vstat[i] = "queued"
    /\ \A j \in 1..(i - 1) : vstat[j] # "queued"

in_pool == pc \in {"submit", "as_completed"}

\* lines 126-128: a worker takes the task, logs "Starting" and issues the
\* metadata fetch.
process_video_start(i) ==
    /\ in_pool
    /\ queue_head(i)
    /\ pool_has_idle_worker(pool.started, pool.finished)
    /\ log' = Log("starting", videos[i])
    /\ calls' = Call(videos[i], "metadata")
    /\ vstat' = [vstat EXCEPT ![i] = "metadata"]
    /\ pool' = [pool EXCEPT !.started = @ + 1]
    /\ UNCHANGED <<flagVars, items, idVars, bucketVars, pc, k, rstat, astat>>

\* lines 128-129: the metadata fetch returns; watch_item is called.
process_video_metadata_return(i) ==
    /\ in_pool
    /\ i \in 1..Len(vstat) /\ vstat[i] = "metadata"
    /\ calls' = Call(videos[i], "watch")
    /\ vstat' = [vstat EXCEPT ![i] = "watch"]
    /\ UNCHANGED <<flagVars, items, idVars, bucketVars, pc, k, rstat, astat, log, pool>>

\* process_video_except without the handler: the exception ends the task
\* and is kept by its future.
process_video_reraise(i, lg) == [stat |-> "exception", log |-> lg]

\* process_video_except that goes on to log "Completed" after the handler.
process_video_except_then_completed(i, lg) ==
    [stat |-> "failed",
     log |-> lg \o <<<<"failed", videos[i]>>, <<"completed", videos[i]>>>>]

\* lines 131-132: what _process_video does with an exception of either call:
\* the status the task ends in and the log after it.
process_video_except(i, lg) ==
    [stat |-> "failed", log |-> Append(lg, <<"failed", videos[i]>>)]

\* lines 128-132: the metadata fetch or the watch simulation raises.
process_video_raise(i) ==
    /\ in_pool
    /\ i \in 1..Len(vstat) /\ vstat[i] \in Running
    /\ vstat' = [vstat EXCEPT ![i] = process_video_except(i, log).stat]
    /\ log' = process_video_except(i, log).log
    /\ pool' = [pool EXCEPT !.finished = @ + 1]
    /\ UNCHANGED <<flagVars, items, idVars, bucketVars, pc, k, rstat, astat, calls>>

\* lines 129-130: the watch simulation returns; "Completed" is logged.
process_video_watch_return(i) ==
    /\ in_pool
    /\ i \in 1..Len(vstat) /\ vstat[i] = "watch"
    /\ vstat' = [vstat EXCEPT ![i] = "completed"]
    /\ log' = Log("completed", videos[i])
    /\ pool' = [pool EXCEPT !.finished = @ + 1]
    /\ UNCHANGED <<flagVars, items, idVars, bucketVars, pc, k, rstat, astat, calls>>

\* lines 99-102: future.result() of each future; one that holds an exception
\* is logged.
RECURSIVE result_log(_, _, _)
result_log(lg, i, st) ==
    IF i > Len(st) THEN lg
    ELSE result_log(IF st[i] = "exception"
                    THEN Append(lg, <<"error_processing_video", 0>>) ELSE lg,
                    i + 1, st)

\* all_done that stops waiting at the first finished future.
any_done(st) == \E i \in 1..Len(st) : st[i] \in Finished

\* lines 92, 98: as_completed yields every future, and the with block's exit
\* waits for every worker: all tasks are done.
all_done(st) == \A i \in 1..Len(st) : st[i] \in Finished

\* lines 98-102 and the exit of the with block: the loop ends once every
\* future is done; its body changes nothing for a future that returned.
as_completed ==
    /\ pc = "as_completed"
    /\ all_done(vstat)
    /\ log' = result_log(log, 1, vstat)
    /\ pc' = "readings"
    /\ k' = 1
    /\ UNCHANGED <<flagVars, items, idVars, bucketVars, vstat, rstat, astat, calls, pool>>

\* lines 106-107: the records the sequential loop's body logs for one item
\* whose two calls return: the item's name, and nothing after the calls.
seq_video_log(lg, item) == Append(lg, <<"name", item>>)

\* lines 105-107: the records of the whole sequential loop over vs when no
\* call raises.
RECURSIVE seq_videos_log(_, _)
seq_videos_log(lg, vs) ==
    IF vs = <<>> THEN lg ELSE seq_videos_log(seq_video_log(lg, Head(vs)), Tail(vs))

\* lines 105-107: the sequential loop logs the name and issues the metadata
\* fetch for position k.
seq_video_next ==
    /\ pc = "seq_videos"
    /\ k <= Len(videos) /\ vstat[k] = "pending"
    /\ log' = seq_video_log(log, videos[k])
    /\ calls' = Call(videos[k], "metadata")
    /\ vstat' = [vstat EXCEPT ![k] = "metadata"]
    /\ UNCHANGED <<flagVars, items, idVars, bucketVars, pc, k, rstat, astat, pool>>

\* line 107: the metadata fetch returns; watch_item is called.
seq_metadata_return ==
    /\ pc = "seq_videos"
    /\ k <= Len(videos) /\ vstat[k] = "metadata"
    /\ calls' = Call(videos[k], "watch")
    /\ vstat' = [vstat EXCEPT ![k] = "watch"]
    /\ UNCHANGED <<flagVars, items, idVars, bucketVars, pc, k, rstat, astat, log, pool>>

\* line 107: watch_item returns; the loop moves on.
seq_watch_return ==
    /\ pc = "seq_videos"
    /\ k <= Len(videos) /\ vstat[k] = "watch"
    /\ vstat' = [vstat EXCEPT ![k] = "completed"]
    /\ k' = k + 1
    /\ UNCHANGED <<flagVars, items, idVars, bucketVars, pc, rstat, astat, calls, log, pool>>

\* lines 105-107: no handler encloses the two calls; where the coordinating
\* thread is after one of them raised (logger.catch, line 157, ends the run).
seq_video_except == "aborted"

\* line 107: the metadata fetch or watch_item raises.
seq_video_raise ==
    /\ pc = "seq_videos"
    /\ k <= Len(videos) /\ vstat[k] \in Running
    /\ vstat' = [vstat EXCEPT ![k] = "raised"]
    /\ pc' = seq_video_except
    /\ UNCHANGED <<flagVars, items, idVars, bucketVars, k, rstat, astat, calls, log, pool>>

\* line 105: the list is exhausted.
seq_videos_end ==
    /\ pc = "seq_videos"
    /\ k > Len(videos)
    /\ pc' = "readings"
    /\ k' = 1
    /\ UNCHANGED <<flagVars, items, idVars, bucketVars, vstat, rstat, astat, calls, log, pool>>

----------------------------------------------------------------------------
(* get_course, lines 109-111, and read_item, lines 147-154.                *)

\* read_next of a loop that walks the list from its end.
read_next_reversed ==
    /\ pc = "readings"
    /\ k <= Len(readings) /\ rstat[Len(readings) - k + 1] = "pending"
    /\ calls' = Call(readings[Len(readings) - k + 1], "read")
    /\ rstat' = [rstat EXCEPT ![Len(readings) - k + 1] = "read"]
    /\ UNCHANGED <<flagVars, items, idVars, bucketVars, pc, k, vstat, astat, log, pool>>

\* lines 110-111, 148: the completion POST for position k is sent.
read_next ==
    /\ pc = "readings"
    /\ k <= Len(readings) /\ rstat[k] = "pending"
    /\ calls' = Call(readings[k], "read")
    /\ rstat' = [rstat EXCEPT ![k] = "read"]
    /\ UNCHANGED <<flagVars, items, idVars, bucketVars, pc, k, vstat, astat, log, pool>>

\* line 153: the response text contains "Completed".
read_completed ==
    /\ pc = "readings"
    /\ k <= Len(readings) /\ rstat[k] = "read"
    /\ rstat' = [rstat EXCEPT ![k] = "completed"]
    /\ k' = k + 1
    /\ UNCHANGED <<flagVars, items, idVars, bucketVars, pc, vstat, astat, calls, log, pool>>

\* read_not_completed that raises on a response without "Completed".
read_not_completed_raises ==
    /\ pc = "readings"
    /\ k <= Len(readings) /\ rstat[k] = "read"
    /\ rstat' = [rstat EXCEPT ![k] = "not_completed"]
    /\ log' = Log("couldnt_read", 0)
    /\ pc' = "aborted"
    /\ UNCHANGED <<flagVars, items, idVars, bucketVars, k, vstat, astat, calls, pool>>

\* lines 153-154: the response text does not contain "Completed".
read_not_completed ==
    /\ pc = "readings"
    /\ k <= Len(readings) /\ rstat[k] = "read"
    /\ rstat' = [rstat EXCEPT ![k] = "not_completed"]
    /\ log' = Log("couldnt_read", 0)
    /\ k' = k + 1
    /\ UNCHANGED <<flagVars, items, idVars, bucketVars, pc, vstat, astat, calls, pool>>

\* lines 148-152: the POST raises; no handler encloses it.
read_raise ==
    /\ pc = "readings"
    /\ k <= Len(readings) /\ rstat[k] = "read"
    /\ rstat' = [rstat EXCEPT ![k] = "raised"]
    /\ pc' = "aborted"
    /\ UNCHANGED <<flagVars, items, idVars, bucketVars, k, vstat, astat, calls, log, pool>>

\* line 110: the list is exhausted.
readings_end ==
    /\ pc = "readings"
    /\ k > Len(readings)
    /\ pc' = "assessments"
    /\ k' = 1
    /\ UNCHANGED <<flagVars, items, idVars, bucketVars, vstat, rstat, astat, calls, log, pool>>

----------------------------------------------------------------------------
(* get_course, lines 113-122: the assessment loop.                         *)

\* lines 115-122: position k; a solver is made and solve() called for the
\* two type names the loop tests for, nothing is done for any other.
solve_next ==
    /\ pc = "assessments"
    /\ k <= Len(assessments) /\ astat[k] = "pending"
    /\ LET i == assessments[k]
           t == items[i]
       IN  IF t = "ungradedAssignment" THEN
               /\ log' = Log("attempt_ungraded", 0)
               /\ calls' = Call(i, "solve")
               /\ astat' = [astat EXCEPT ![k] = "solve"]
               /\ k' = k
           ELSE IF t = "staffGraded" THEN
               /\ log' = Log("attempt_graded", 0)
               /\ calls' = Call(i, "solve")
               /\ astat' = [astat EXCEPT ![k] = "solve"]
               /\ k' = k
           ELSE
               /\ astat' = [astat EXCEPT ![k] = "skipped"]
               /\ k' = k + 1
               /\ UNCHANGED <<calls, log>>
    /\ UNCHANGED <<flagVars, items, idVars, bucketVars, pc, vstat, rstat, pool>>

\* lines 118, 122: solve() returns.
solve_return ==
    /\ pc = "assessments"
    /\ k <= Len(assessments) /\ astat[k] = "solve"
    /\ astat' = [astat EXCEPT ![k] = "solved"]
    /\ k' = k + 1
    /\ UNCHANGED <<flagVars, items, idVars, bucketVars, pc, vstat, rstat, calls, log, pool>>

\* lines 114-122: no handler encloses solve(); where the coordinating thread
\* is after it raised.
solve_except == "aborted"

\* lines 118, 122: solve() raises.
solve_raise ==
    /\ pc = "assessments"
    /\ k <= Len(assessments) /\ astat[k] = "solve"
    /\ astat' = [astat EXCEPT ![k] = "raised"]
    /\ pc' = solve_except
    /\ UNCHANGED <<flagVars, items, idVars, bucketVars, k, vstat, rstat, calls, log, pool>>

\* line 114: the list is exhausted; get_course returns.
assessments_end ==
    /\ pc = "assessments"
    /\ k > Len(assessments)
    /\ pc' = "done"
    /\ UNCHANGED <<flagVars, items, idVars, bucketVars, k, vstat, rstat, astat, calls, log, pool>>

----------------------------------------------------------------------------

Init ==
    /\ args \in Flags
    /\ items \in ItemLists
    /\ pc = "main"
    /\ llm = FALSE /\ eva = FALSE /\ parallel = FALSE
    /\ user_id = "None" /\ course_id = "None"
    /\ videos = <<>> /\ readings = <<>> /\ assessments = <<>>
    /\ k = 1
    /\ vstat = <<>> /\ rstat = <<>> /\ astat = <<>>
    /\ calls = [i \in 1..Len(items) |-> <<>>]
    /\ log = <<>>
    /\ pool = NoPool

Next ==
    \/ main
    \/ get_userid_ok
    \/ get_userid_fail
    \/ get_course_ok
    \/ get_course_fail
    \/ videos_parallel
    \/ videos_sequential
    \/ videos_none
    \/ submit
    \/ \E i \in DOMAIN vstat : process_video_start(i)
    \/ \E i \in DOMAIN vstat : process_video_metadata_return(i)
    \/ \E i \in DOMAIN vstat : process_video_raise(i)
    \/ \E i \in DOMAIN vstat : process_video_watch_return(i)
    \/ as_completed
    \/ seq_video_next
    \/ seq_metadata_return
    \/ seq_watch_return
    \/ seq_video_raise
    \/ seq_videos_end
    \/ read_next
    \/ read_completed
    \/ read_not_completed
    \/ read_raise
    \/ readings_end
    \/ solve_next
    \/ solve_return
    \/ solve_raise
    \/ assessments_end

Spec == Init /\ [][Next]_vars

\* Longest list among the inputs.
MaxLen == IF MaxItems > Len(Scenario) THEN MaxItems ELSE Len(Scenario)

\* A call of the task at position i ends: it returns or it raises.
process_video_call_ends(i) ==
    \/ process_video_metadata_return(i)
    \/ process_video_raise(i)
    \/ process_video_watch_return(i)

\* The run under fair scheduling of the pool: the submitting loop goes on, a
\* worker that can take the oldest queued task does, and every call of a
\* task returns or raises in the end.
FairSpec ==
    /\ Init /\ [][Next]_vars
    /\ WF_vars(submit)
    /\ \A i \in 1..MaxLen : WF_vars(process_video_start(i))
    /\ \A i \in 1..MaxLen : WF_vars(process_video_call_ends(i))

----------------------------------------------------------------------------
(* The worker pool of lines 92-102 by its counters alone: how many tasks   *)
(* were submitted, taken by a worker, and ended.  It is the video phase of *)
(* a parallel run whose videos list has pool.n entries, with the per-video *)
(* detail left out so that lists longer than max_workers can be explored.  *)

notPool == <<args, items, llm, eva, parallel, user_id, course_id, videos,
             readings, assessments, k, vstat, rstat, astat, calls, log>>

PoolInit ==
    /\ args = [llm |-> FALSE, eva |-> FALSE, parallel |-> TRUE]
    /\ items = <<>>
    /\ pc = "submit"
    /\ llm = FALSE /\ eva = FALSE /\ parallel = TRUE
    /\ user_id = "uid" /\ course_id = "cid"
    /\ videos = <<>> /\ readings = <<>> /\ assessments = <<>>
    /\ k = 1
    /\ vstat = <<>> /\ rstat = <<>> /\ astat = <<>>
    /\ calls = <<>>
    /\ log = <<>>
    /\ \E n \in 1..MaxPoolVideos :
           pool = [n |-> n, submitted |-> 0, started |-> 0, finished |-> 0]

\* lines 94-96: executor.submit.
pool_submit ==
    /\ pc = "submit"
    /\ pool.submitted < pool.n
    /\ pool' = [pool EXCEPT !.submitted = @ + 1]
    /\ pc' = IF pool.submitted + 1 = pool.n THEN "as_completed" ELSE "submit"
    /\ UNCHANGED notPool

\* lines 92, 126: a worker takes the oldest queued task.
pool_start ==
    /\ in_pool
    /\ pool.started < pool.submitted
    /\ pool_has_idle_worker(pool.started, pool.finished)
    /\ pool' = [pool EXCEPT !.started = @ + 1]
    /\ UNCHANGED <<notPool, pc>>

\* lines 130-132: a running task ends, by "Completed" or by "Failed".
pool_finish ==
    /\ in_pool
    /\ pool.finished < pool.started
    /\ pool' = [pool EXCEPT !.finished = @ + 1]
    /\ UNCHANGED <<notPool, pc>>

\* lines 98-102 and the exit of the with block.
pool_join ==
    /\ pc = "as_completed"
    /\ pool.finished = pool.n
    /\ pc' = "readings"
    /\ UNCHANGED <<notPool, pool>>

PoolNext ==
    \/ pool_submit
    \/ pool_start
    \/ pool_finish
    \/ pool_join

PoolSpec == PoolInit /\ [][PoolNext]_vars

\* The counters of the detailed model are the counts of its per-video states,
\* and each of its steps in the video phase is a step of the counting model.
PoolCountsAgree ==
    in_pool =>
        /\ pool.n = Len(videos)
        /\ pool.submitted = CountIn(vstat, {"queued"} \cup Running \cup Finished)
        /\ pool.started = CountIn(vstat, Running \cup Finished)
        /\ pool.finished = CountIn(vstat, Finished)

PoolStepsAgree ==
    [][(in_pool /\ pool' # pool) =>
          \/ pool' = [pool EXCEPT !.submitted = @ + 1] /\ pool.submitted < pool.n
          \/ /\ pool' = [pool EXCEPT !.started = @ + 1]
             /\ pool.started < pool.submitted
             /\ pool_has_idle_worker(pool.started, pool.finished)
          \/ pool' = [pool EXCEPT !.finished = @ + 1] /\ pool.finished < pool.started]_vars

----------------------------------------------------------------------------
(* Properties.                                                             *)

Occurrences(s, x) == Cardinality({j \in 1..Len(s) : s[j] = x})

Issued(item, kind) == kind \in Range(calls[item])

Ended == pc \in {"done", "aborted"}

VideoEnded == {"completed", "failed"}
ReadingEnded == {"completed", "not_completed"}

\* The "Completed: <name>" records of a log.
CompletedEntries(lg) == {e \in Range(lg) : e[1] = "completed"}

\* The sequential loop of the model logs what seq_videos_log computes: when
\* it has ended and no reading was taken up yet, the log is an earlier log
\* followed by the loop's records.
SeqLogAgrees ==
    (/\ ~parallel /\ pc = "readings" /\ videos # <<>>
     /\ \A j \in DOMAIN rstat : rstat[j] = "pending")
        => \E n \in 0..Len(log) : log = seq_videos_log(SubSeq(log, 1, n), videos)

\* C1: phase ordering.  Once any reading-completion call has been issued,
\* every video of the videos list has ended, with "Completed" or with
\* "Failed"; once any assessment has been taken up, every reading-completion
\* call has returned.
C1_PhaseOrdering ==
    /\ (\E i \in DOMAIN rstat : rstat[i] # "pending")
          => \A j \in DOMAIN vstat : vstat[j] \in VideoEnded
    /\ (\E i \in DOMAIN astat : astat[i] # "pending")
          => \A j \in DOMAIN rstat : rstat[j] \in ReadingEnded

\* C1 happens: a parallel run in which a video failed, the readings were
\* done and a solve is in flight.
C1_Witness ==
    /\ parallel
    /\ \E i \in DOMAIN vstat : vstat[i] = "failed"
    /\ readings # <<>>
    /\ \E i \in DOMAIN astat : astat[i] = "solve"

\* C2 as claimed: in sequential mode, after a video's metadata fetch or
\* watch simulation raised, the metadata fetch of every video of the list
\* has been issued by the time the run has ended.
C2_SequentialContinues ==
    (Ended /\ ~parallel /\ \E j \in DOMAIN vstat : vstat[j] = "raised")
        => \A j \in DOMAIN vstat : Issued(videos[j], "metadata")

\* C3: parallel mode.  An exception of a video's calls never leaves the
\* task (no future holds an exception, the result loop logs no error), the
\* failed video has its "Failed to process" record, and once the coordinating
\* thread is past the video phase, also when the run was aborted later,
\* every video has ended with "Completed" or "Failed".
C3_ParallelFailureIsolated ==
    parallel =>
        /\ \A i \in DOMAIN vstat : vstat[i] \notin {"exception", "raised"}
        /\ \A i \in DOMAIN vstat :
               vstat[i] = "failed" => <<"failed", videos[i]>> \in Range(log)
        /\ <<"error_processing_video", 0>> \notin Range(log)
        /\ (pc \in {"readings", "assessments", "done", "aborted"} /\ videos # <<>>)
               => \A i \in DOMAIN vstat : vstat[i] \in VideoEnded

\* C3 happens: the pool is done, an earlier video failed and a later one
\* completed.
C3_Witness ==
    /\ parallel /\ pc = "readings"
    /\ \E i, j \in DOMAIN vstat :
           i < j /\ vstat[i] = "failed" /\ vstat[j] = "completed"

\* C4 as claimed: in a run that has ended, in which exactly one video failed
\* and no other call raised, every video, every reading and every
\* assessment was processed and exactly one failure was recorded.
C4_OneVideoFailureIsolated ==
    (/\ Ended
     /\ CountIn(vstat, {"failed", "raised"}) = 1
     /\ CountIn(rstat, {"raised"}) = 0
     /\ CountIn(astat, {"raised"}) = 0)
        => /\ \A j \in DOMAIN vstat : vstat[j] # "pending"
           /\ \A j \in DOMAIN rstat : rstat[j] \in ReadingEnded
           /\ \A j \in DOMAIN astat : astat[j] = "solved"
           /\ CountIn(log, {<<"failed", i>> : i \in DOMAIN items}) = 1

\* C5 as claimed: after solve() raised for one assessment, solve() has been
\* called for every assessment of the list by the time the run has ended.
C5_AssessmentContinues ==
    (Ended /\ \E j \in DOMAIN astat : astat[j] = "raised")
        => \A j \in DOMAIN astat : Issued(assessments[j], "solve")

\* C6: at most 30 video tasks are started and not yet ended.
C6_ConcurrencyCap == pool.started - pool.finished <= 30

\* C6 happens: more than 30 videos, 30 of them running and one waiting in
\* the queue.
C6_Witness ==
    /\ pool.n > 30
    /\ pool.started - pool.finished = 30
    /\ pool.submitted > pool.started

\* C7: at most one reading-completion call or solve is in flight, none while
\* a video's call is in flight, and two videos are in flight together only
\* in parallel mode.
C7_MutualExclusion ==
    LET nonVideo == CountIn(rstat, {"read"}) + CountIn(astat, {"solve"})
        video == CountIn(vstat, Running)
    IN  /\ nonVideo <= 1
        /\ nonVideo > 0 => video = 0
        /\ video > 1 => parallel

\* C7 happens: a reading-completion call in flight in a parallel run of at
\* least two videos.
C7_Witness ==
    /\ parallel /\ Len(videos) >= 2
    /\ \E i \in DOMAIN rstat : rstat[i] = "read"

\* C8 as claimed: when the pool has run the videos list with no call
\* raising, the number of completed videos and the set of "Completed"
\* records are those of the sequential loop over the same list.
C8_ParallelEqualsSequential ==
    (/\ parallel /\ pc = "readings" /\ videos # <<>>
     /\ \A i \in DOMAIN vstat : vstat[i] = "completed")
        => /\ CountIn(vstat, {"completed"}) = Len(videos)
           /\ CompletedEntries(log) = CompletedEntries(seq_videos_log(<<>>, videos))

\* C9: every item is at most once in the three lists together, and an item
\* whose type name is none of the four known ones is in none.
C9_ClassificationExclusive ==
    \A i \in DOMAIN items :
        LET n == Occurrences(videos, i) + Occurrences(readings, i)
                 + Occurrences(assessments, i)
        IN  /\ n <= 1
            /\ items[i] \notin {"lecture", "supplement", "ungradedAssignment",
                                "staffGraded"} => n = 0

\* C9 happens: classified, with a video, an assessment and an item of an
\* unknown type.
C9_Witness ==
    /\ pc = "videos"
    /\ videos # <<>> /\ assessments # <<>>
    /\ \E i \in DOMAIN items : items[i] = "quiz"

\* C10: with self.eva set, videos and readings are empty and no metadata
\* fetch, watch simulation or reading-completion call is issued.
C10_EvaOnlyAssessments ==
    eva =>
        /\ videos = <<>> /\ readings = <<>>
        /\ \A i \in DOMAIN calls :
               Range(calls[i]) \cap {"metadata", "watch", "read"} = {}

\* C10 happens: an eva run over a lecture, a supplement and an assessment
\* has returned, the assessment solved.
C10_Witness ==
    /\ eva /\ pc = "done"
    /\ \E i \in DOMAIN items : items[i] = "lecture"
    /\ \E i \in DOMAIN items : items[i] = "supplement"
    /\ \E i \in DOMAIN astat : astat[i] = "solved"

\* The content fetch has answered and the items are classified: the
\* coordinating thread is in one of the phases, or was stopped in one by a
\* call that raised.
Classified ==
    \/ pc \in {"videos", "submit", "as_completed", "seq_videos", "readings",
               "assessments", "done"}
    \/ /\ pc = "aborted"
       /\ CountIn(vstat, {"raised"}) + CountIn(rstat, {"raised"})
              + CountIn(astat, {"raised"}) > 0

\* C11: once classified, an item tagged ungradedAssignment or staffGraded is
\* in assessments exactly when self.llm or self.eva is set; with neither set
\* assessments is empty and solve() is never called.
C11_AssessmentOptIn ==
    Classified =>
        /\ \A i \in DOMAIN items :
               items[i] \in {"ungradedAssignment", "staffGraded"}
                   => (i \in Range(assessments) <=> (llm \/ eva))
        /\ ~(llm \/ eva)
               => /\ assessments = <<>>
                  /\ \A i \in DOMAIN items : ~Issued(i, "solve")

\* C11 happens: an eva run in which a staffGraded item was solved.
C11_Witness ==
    /\ Classified /\ eva
    /\ \E j \in DOMAIN astat :
           astat[j] = "solved" /\ items[assessments[j]] = "staffGraded"

\* The flags and the three lists of the run main starts from the flags a.
RunOf(a) ==
    LET f == main_flags(a)
    IN  [parallel |-> f.parallel, lists |-> classify(items, f.llm, f.eva, <<>>)]

\* C12: a run started with --llm and --eva has the parallel setting and the
\* three lists of the run started with --eva alone on the same items, and
\* issues that run's calls: nothing but one solve() per item of its
\* assessments list.
C12_FlagPrecedence ==
    (args.llm /\ args.eva /\ pc # "main") =>
        LET alone == RunOf([args EXCEPT !.llm = FALSE])
        IN  /\ parallel = alone.parallel
            /\ Classified =>
                   /\ videos = alone.lists.videos
                   /\ readings = alone.lists.readings
                   /\ assessments = alone.lists.assessments
            /\ \A i \in DOMAIN items :
                   \/ calls[i] = <<>>
                   \/ calls[i] = <<"solve">> /\ i \in Range(alone.lists.assessments)

\* C12 happens: a run started with both flags over a lecture and an
\* assessment has returned.
C12_Witness ==
    /\ args.llm /\ args.eva /\ pc = "done"
    /\ \E i \in DOMAIN items : items[i] = "lecture"
    /\ \E j \in DOMAIN astat : astat[j] = "solved"

\* The calls a run without failures issues for item i: those of the runner
\* of the list the item is in, none for an item in no list.
ExpectedCalls(i) ==
    IF i \in Range(videos) THEN <<"metadata", "watch">>
    ELSE IF i \in Range(readings) THEN <<"read">>
    ELSE IF i \in Range(assessments) THEN <<"solve">>
    ELSE <<>>

\* Number of items for which a call of the kind was issued.
Attempts(kind) == Cardinality({i \in DOMAIN items : Issued(i, kind)})

\* C13: no call is issued twice for an item, and a call is issued only for
\* an item of the list of the runner that issues it; when the run has
\* returned and no video failed, every item of a list has exactly its
\* runner's calls and every other item none, so the attempts per phase are
\* the lengths of the lists (2, 1 and 0 for the scenario's list in standard
\* sequential mode).
C13_ExactlyOnce ==
    /\ \A i \in DOMAIN items :
           /\ \A kind \in {"metadata", "watch", "read", "solve"} :
                  Occurrences(calls[i], kind) <= 1
           /\ \E n \in 0..Len(ExpectedCalls(i)) :
                  calls[i] = SubSeq(ExpectedCalls(i), 1, n)
    /\ (pc = "done" /\ CountIn(vstat, {"failed"}) = 0) =>
           /\ \A i \in DOMAIN items : calls[i] = ExpectedCalls(i)
           /\ Attempts("metadata") = Len(videos)
           /\ Attempts("read") = Len(readings)
           /\ Attempts("solve") = Len(assessments)
           /\ (items = Scenario /\ ~args.llm /\ ~args.eva /\ ~args.parallel)
                  => /\ Attempts("metadata") = 2
                     /\ Attempts("read") = 1
                     /\ Attempts("solve") = 0

\* C13 happens: the scenario's list in standard sequential mode, returned.
C13_Witness ==
    /\ items = Scenario /\ ~args.llm /\ ~args.eva /\ ~args.parallel
    /\ pc = "done"

\* C14: a reading whose response lacked the completion marker has its
\* "Couldn't read item!" record and exactly one completion call (no retry);
\* the loop has moved past it, the run was not aborted by it, and once the
\* reading phase is over every reading of the list has been processed.
C14_ReadingSoftFailure ==
    /\ \A j \in DOMAIN rstat :
           rstat[j] = "not_completed" =>
               /\ <<"couldnt_read", 0>> \in Range(log)
               /\ calls[readings[j]] = <<"read">>
               /\ pc = "readings" => k > j
               /\ pc = "aborted" =>
                      \/ \E m \in DOMAIN rstat : m > j /\ rstat[m] = "raised"
                      \/ \E m \in DOMAIN astat : astat[m] = "raised"
    /\ pc \in {"assessments", "done"} =>
           \A j \in DOMAIN rstat : rstat[j] \in ReadingEnded

\* C14 happens: the first reading's response lacked the marker and the
\* second reading's call is in flight.
C14_Witness ==
    /\ Len(rstat) >= 2
    /\ rstat[1] = "not_completed" /\ rstat[2] = "read"

\* No phase has begun: the lists are empty and no call was issued.
NoPhaseWork ==
    /\ videos = <<>> /\ readings = <<>> /\ assessments = <<>>
    /\ \A i \in DOMAIN items : calls[i] = <<>>

\* C15: as long as the user id is not known or the items are not classified,
\* in particular after the lookup or the content fetch failed and the run
\* was aborted, no phase has begun.
C15_FatalSetup ==
    /\ user_id = "None" => NoPhaseWork /\ ~Classified
    /\ ~Classified => NoPhaseWork

\* C15 happens: the content fetch answered with a course id but without
\* the items, over a list that has a lecture; the run is aborted.
C15_Witness ==
    /\ pc = "aborted" /\ ~Classified
    /\ user_id = "uid" /\ course_id = "cid"
    /\ \E i \in DOMAIN items : items[i] = "lecture"

\* The orchestrator state the coordinating thread is in: 1 CLASSIFIED (in
\* the video phase), 2 VIDEOS_DONE, 3 READINGS_DONE, 4 ASSESSMENTS_DONE;
\* 0 before the classification and after an abort.
PhaseOf(p) ==
    IF p \in {"videos", "submit", "as_completed", "seq_videos"} THEN 1
    ELSE IF p = "readings" THEN 2
    ELSE IF p = "assessments" THEN 3
    ELSE IF p = "done" THEN 4
    ELSE 0

\* The part of C16 that holds: a step keeps the orchestrator state, moves it
\* to the next one, or aborts the run; no state is skipped.
PhasesInOrder ==
    [][\/ PhaseOf(pc') = PhaseOf(pc)
       \/ PhaseOf(pc') = PhaseOf(pc) + 1
       \/ pc' = "aborted"]_vars

\* C16 as claimed: once the items are classified the run stops nowhere but
\* in its terminal state, after the assessment loop: whenever no step is
\* left to take, get_course has returned, however many items failed.
C16_ReachesTerminal ==
    (Classified /\ ~ENABLED Next) => pc = "done"

\* Position of the first record e in a log, 0 when it has none.
FirstAt(lg, e) ==
    IF e \in Range(lg) THEN CHOOSE n \in 1..Len(lg) :
                                lg[n] = e /\ \A m \in 1..(n - 1) : lg[m] # e
    ELSE 0

\* C17: under fair scheduling every video submitted to the pool ends, with
\* "Completed" or "Failed", whatever happened to the others; and the
\* coordinating thread is not past the video phase while a submitted video
\* is queued or running.
C17_NoEarlyAbort ==
    /\ \A i \in 1..MaxLen :
           (parallel /\ i \in DOMAIN vstat /\ vstat[i] = "queued")
               ~> (i \in DOMAIN vstat /\ vstat[i] \in VideoEnded)
    /\ [](parallel /\ ~in_pool =>
              \A i \in DOMAIN vstat : vstat[i] \notin ({"queued"} \cup Running))

\* C17 happens: the pool is done with a video that completed although it
\* was started after an earlier one had failed.
C17_Witness ==
    /\ parallel /\ pc = "readings"
    /\ \E i, j \in DOMAIN vstat :
           /\ i < j
           /\ vstat[i] = "failed" /\ vstat[j] = "completed"
           /\ FirstAt(log, <<"failed", videos[i]>>) < FirstAt(log, <<"starting", videos[j]>>)

\* C18: in sequential mode a video is taken up only when the video before
\* it in the list has completed; in every mode a reading is taken up only
\* when the reading before it has returned, and an assessment only when
\* the assessment before it is done.
C18_InputOrder ==
    /\ ~parallel =>
           \A j \in 2..Len(vstat) :
               vstat[j] # "pending" => vstat[j - 1] = "completed"
    /\ \A j \in 2..Len(rstat) :
           rstat[j] # "pending" => rstat[j - 1] \in ReadingEnded
    /\ \A j \in 2..Len(astat) :
           astat[j] # "pending" => astat[j - 1] \in {"solved", "skipped"}

\* C18 happens: a sequential run whose second video is being watched
\* after the first completed.
C18_Witness ==
    /\ ~parallel /\ Len(vstat) >= 2
    /\ vstat[1] = "completed" /\ vstat[2] = "watch"

\* A list of item indices in the order of the platform's item list.
InListOrder(s) == \A a, b \in 1..Len(s) : a < b => s[a] < s[b]

\* C19: each of the three lists holds its items in the order they have in
\* the platform's item list.
C19_OrderPreserved ==
    /\ InListOrder(videos) /\ Range(videos) \subseteq DOMAIN items
    /\ InListOrder(readings) /\ Range(readings) \subseteq DOMAIN items
    /\ InListOrder(assessments) /\ Range(assessments) \subseteq DOMAIN items

\* C19 happens: two lectures with an assessment between them are
\* classified.
C19_Witness ==
    /\ Classified
    /\ Len(videos) = 2 /\ videos[2] - videos[1] > 1
    /\ assessments # <<>>

\* The records of the video at position i of videos in a parallel run.
VideoRecordsOk(i) ==
    LET v == videos[i]
        starts == Occurrences(log, <<"starting", v>>)
        comp == Occurrences(log, <<"completed", v>>)
        fail == Occurrences(log, <<"failed", v>>)
    IN  /\ starts = (IF vstat[i] \in Running \cup VideoEnded THEN 1 ELSE 0)
        /\ comp + fail = (IF vstat[i] \in VideoEnded THEN 1 ELSE 0)
        /\ comp = 1 =>
               /\ vstat[i] = "completed"
               /\ calls[v] = <<"metadata", "watch">>
               /\ FirstAt(log, <<"starting", v>>) < FirstAt(log, <<"completed", v>>)
        /\ fail = 1 =>
               /\ vstat[i] = "failed"
               /\ FirstAt(log, <<"starting", v>>) < FirstAt(log, <<"failed", v>>)
        /\ vstat[i] = "metadata" => calls[v] = <<"metadata">>

\* A video whose metadata fetch raises ends without a watch simulation, and
\* nothing is called for a video that has failed.
NoCallAfterFailure(i) ==
    LET v == videos[i]
    IN  /\ (vstat[i] = "metadata" /\ vstat'[i] = "failed") => calls'[v] = <<"metadata">>
        /\ vstat[i] = "failed" => (vstat'[i] = "failed" /\ calls'[v] = calls[v])

\* C20: in parallel mode every video that a worker took has one "Starting"
\* record; it has one record of "Completed" or "Failed to process", after
\* the "Starting" one, exactly when it has ended; "Completed" only when the
\* metadata fetch and the watch simulation were both called and returned;
\* and the watch simulation is never called for a video whose metadata
\* fetch raised.
C20_SingleOutcome ==
    /\ [](parallel => \A i \in DOMAIN vstat : VideoRecordsOk(i))
    /\ [][parallel => \A i \in DOMAIN vstat : NoCallAfterFailure(i)]_vars

\* C20 happens: the pool is done; a video's metadata fetch raised, so that
\* only that call was issued for it, and an earlier video completed.
C20_Witness ==
    /\ parallel /\ pc = "readings"
    /\ \E i, j \in DOMAIN vstat :
           /\ j < i
           /\ vstat[i] = "failed" /\ calls[videos[i]] = <<"metadata">>
           /\ vstat[j] = "completed"

====
